---- MODULE Spec2Model ----
(***************************************************************************)
(* Model of drishti_bot.py: one run of main() after another, each run      *)
(* reading the history file, announcing the unseen items of the top-5      *)
(* window of the two scraped sections, optionally announcing the News of   *)
(* the Day batch, and saving the history.                                  *)
(*                                                                         *)
(* A URL is an integer.  An item {title, url} is modelled by its url: the  *)
(* title is only copied into the notification payload and never decides    *)
(* anything.  A dict is a record with the set of its keys (`keys`) and one *)
(* sequence per list; a key outside `keys` has the empty sequence.         *)
(***************************************************************************)
EXTENDS Integers, Sequences, FiniteSets, TLC

\* ---------------------------------------------------------------- constants
MAX_HISTORY_SIZE == 50
TOP_N == 5

\* ------------------------------------------------------------------- bounds
MaxFresh == 1
MaxLinks == 2
MaxArticles == 1
MaxRuns == 2
MaxOverlapLinks == 1

\* The process that runs main(); a second one only exists for overlapping runs.
Procs == {1, 2}
SeqProcs == {1}

\* Python's None, for news_date_to_fetch; no URL is 0.
None == 0
\* A log at the cap: the URLs 1..50, oldest first.
FullLog == [i \in 1..MAX_HISTORY_SIZE |-> i]
OldestUrl == FullLog[1]
FreshUrls == (MAX_HISTORY_SIZE + 1)..(MAX_HISTORY_SIZE + MaxFresh)
\* The URLs a scraped page can show: the oldest URL of a full log, and fresh ones.
ScrapeUrls == {OldestUrl} \cup FreshUrls

Keys == {"news", "editorials", "news_articles"}

\* ------------------------------------------------------------ list helpers
Min(a, b) == IF a <= b THEN a ELSE b

Contains(s, u) == \E i \in 1..Len(s) : s[i] = u

Range(s) == {s[i] : i \in 1..Len(s)}

\* reversed(s)
Reverse(s) == [i \in 1..Len(s) |-> s[Len(s) + 1 - i]]

\* s[:n]
FirstN(s, n) == SubSeq(s, 1, Min(n, Len(s)))

\* s[-n:]  (n > 0)
LastN(s, n) == IF Len(s) <= n THEN s ELSE SubSeq(s, Len(s) - n + 1, Len(s))

SeqsUpTo(S, n) == UNION {[1..k -> S] : k \in 0..n}

\* ------------------------------------------------------------ the history
\* {"news": [], "editorials": [], "news_articles": []}
EmptyHistory ==
    [keys |-> Keys, news |-> <<>>, editorials |-> <<>>, news_articles |-> <<>>]

\* The content of history.json.  kind is
\*   "missing"     no such file (os.path.exists is false)
\*   "unreadable"  open() raises
\*   "malformed"   json.load raises (not JSON, empty or truncated file)
\*   "nonobject"   JSON that is no object (a list, a number, null): the
\*                 membership test or the item assignment raises TypeError
\*   "object"      a JSON object holding the lists named in keys
\* (A JSON string or list that holds the text "news_articles" is returned by
\* load_history as it is; main then behaves as with an object that has neither
\* "news" nor "editorials".)
NoFile(k) ==
    [kind |-> k, keys |-> {}, news |-> <<>>, editorials |-> <<>>,
     news_articles |-> <<>>]

ObjectFile(h) ==
    [kind |-> "object", keys |-> h.keys, news |-> h.news,
     editorials |-> h.editorials, news_articles |-> h.news_articles]

\* A variant of load_history whose error paths return {}.
load_history_empty_dict(f) ==
    IF f.kind = "object"
    THEN [keys |-> f.keys \cup {"news_articles"}, news |-> f.news,
          editorials |-> f.editorials, news_articles |-> f.news_articles]
    ELSE [keys |-> {}, news |-> <<>>, editorials |-> <<>>, news_articles |-> <<>>]

\* load_history(): the dict it returns for the file content f.  Only the
\* "news_articles" key is added to an object that lacks it.
load_history(f) ==
    IF f.kind = "missing" THEN EmptyHistory
    ELSE IF f.kind \in {"unreadable", "malformed", "nonobject"} THEN EmptyHistory
    ELSE [keys |-> f.keys \cup {"news_articles"}, news |-> f.news,
          editorials |-> f.editorials, news_articles |-> f.news_articles]

\* A variant of GetNewsArticles that looks the date page up in the news log.
GetNewsArticlesFromNews(h) == h.news

\* A variant of GetNewsArticles that looks up a key the dict never has.
GetNewsArticlesWrongKey(h) == <<>>

\* history.get("news_articles", [])
GetNewsArticles(h) == IF "news_articles" \in h.keys THEN h.news_articles ELSE <<>>

\* Variants of AppendCapped: slicing with [:MAX_HISTORY_SIZE], and not slicing.
AppendKeepFirst(log, url) == FirstN(Append(log, url), MAX_HISTORY_SIZE)

AppendUncapped(log, url) == Append(log, url)

\* log.append(url); log = log[-MAX_HISTORY_SIZE:]
AppendCapped(log, url) == LastN(Append(log, url), MAX_HISTORY_SIZE)

\* A variant of Candidates without the slice to the first five.
CandidatesAll(links) == Reverse(links)

\* A variant of Candidates without reversed().
CandidatesUnreversed(links) == FirstN(links, TOP_N)

\* reversed(links[:5]): the candidates of a section, in the order of the scan.
Candidates(links) == Reverse(FirstN(links, TOP_N))

\* requests.post(...).raise_for_status(): the message reaches Discord when
\* there is a webhook to post to and the POST goes through.
Posted(hook, post_ok) == hook /\ post_ok

\* A variant of send_discord_notification whose except branch returns True.
send_discord_notification_true(hook, post_ok) == TRUE

\* send_discord_notification: False without a webhook, True after the POST,
\* False when the POST raised.
send_discord_notification(hook, post_ok) ==
    IF ~hook THEN FALSE
    ELSE IF post_ok THEN TRUE
    ELSE FALSE

\* A variant of send_news_of_the_day_notification whose except branch returns
\* True.
send_news_of_the_day_notification_true(hook, n_articles, post_ok) ==
    IF ~hook \/ n_articles = 0 THEN FALSE ELSE TRUE

\* send_news_of_the_day_notification: False without a webhook or without
\* articles, else whether the POST went through.
send_news_of_the_day_notification(hook, n_articles, post_ok) ==
    IF ~hook \/ n_articles = 0 THEN FALSE
    ELSE IF post_ok THEN TRUE
    ELSE FALSE


\* parse_news_section, parse_editorial_section: the links of a fetched page.
\* A page whose section is not found yields the empty list.
parse_news_section(page) == page.news

parse_editorial_section(page) == page.editorials

\* A variant of NotInLog that compares with the newest entry of the log only.
NotInLogLast(log, url) == log = <<>> \/ log[Len(log)] # url

\* A variant of NotInLog that takes every URL for new.
NotInLogOther(log, url) == TRUE

\* url not in log
NotInLog(log, url) == ~Contains(log, url)

\* A variant of DateToFetch without the test: the last delivered item wins.
DateToFetchLast(cur, url) == url

\* if not news_date_to_fetch: news_date_to_fetch = {"url": url, "title": title}
DateToFetch(cur, url) == IF cur = None THEN url ELSE cur

\* ------------------------------------------------------------------ inputs
\* The link lists a scraped section can hold, over the URLs U: every short
\* list, and the lists of TOP_N + 1 links whose window repeats one URL and whose
\* last link, outside the window, is another URL.
LongLinks(U) ==
    {[i \in 1..(TOP_N + 1) |-> IF i <= TOP_N THEN a ELSE b] :
        a \in U, b \in U} \ {[i \in 1..(TOP_N + 1) |-> a] : a \in U}

ScrapeLists(U) == SeqsUpTo(U, MaxLinks) \cup LongLinks(U)

\* The news section can show the oldest URL of a full log again; the editorial
\* section shows fresh URLs.
NewsLists == ScrapeLists(ScrapeUrls)

EditorialLists == ScrapeLists(FreshUrls)

\* The logs a history file can hold at the start, per list: empty, holding the
\* oldest URL only, or at the cap.  No log repeats a URL or exceeds the cap, as
\* in every file the program writes.
InitNews == {<<>>, <<OldestUrl>>, FullLog}

InitEditorials == {<<>>, FullLog}

InitNewsArticles == {<<>>, FullLog}

InitFiles ==
    {NoFile(k) : k \in {"missing", "unreadable", "malformed", "nonobject"}}
    \cup
    {[kind |-> "object", keys |-> K,
      news |-> IF "news" \in K THEN n ELSE <<>>,
      editorials |-> IF "editorials" \in K THEN e ELSE <<>>,
      news_articles |-> IF "news_articles" \in K THEN a ELSE <<>>] :
        K \in SUBSET Keys, n \in InitNews, e \in InitEditorials,
        a \in InitNewsArticles}

\* ------------------------------------------------------------------- state
VARIABLES
    file,               \* the content of history.json
    nruns,              \* runs started so far
    DISCORD_WEBHOOK,    \* per process: is the environment variable set
    pc,                 \* per process: where main() stands
    soup,               \* per process: the fetched front page
    history,            \* per process: the dict load_history returned
    news_links,
    editorial_links,
    todo,               \* per process: what the running for loop has left
    new_items_found,
    news_date_to_fetch, \* None, or the url of the item to fetch the day of
    exit_code,          \* -1 while the process has not exited
    trace,              \* per process: the I/O of the run so far, in order
    loaded,             \* per process: history as load_history returned it
    read,               \* per process: the file content load_history found
    prev                \* per process: the run before the present one

vars ==
    <<file, nruns, DISCORD_WEBHOOK, pc, soup, history, news_links,
      editorial_links, todo, new_items_found, news_date_to_fetch, exit_code,
      trace, loaded, read, prev>>

NoPage == [news |-> <<>>, editorials |-> <<>>]

Event(op, cat, url, ok) == [op |-> op, cat |-> cat, url |-> url, ok |-> ok]

\* The notifications attempted for a log (items of a section, or the batch),
\* as positions of the trace; whether one for url was made, and went through.
Attempts(t, cat) ==
    {i \in 1..Len(t) : t[i].op \in {"notify", "notify_batch"} /\ t[i].cat = cat}

Delivered(t, cat, url) ==
    \E i \in Attempts(t, cat) : t[i].url = url /\ t[i].ok

Attempted(t, cat, url) ==
    \E i \in Attempts(t, cat) : t[i].url = url

Saved(t) == \E i \in 1..Len(t) : t[i].op = "save" /\ t[i].ok

AllDelivered(t) ==
    \A i \in 1..Len(t) : t[i].op \in {"notify", "notify_batch"} => t[i].ok

\* What is remembered of a finished run: whether it ran to its end with every
\* attempted delivery successful and the history saved (and then what it had
\* scraped, and whether every URL of the two windows that the loaded logs held
\* is still in the logs h the run ended with), and the URLs, absent from the
\* history the run loaded, whose every delivery in the run failed.  Of a run
\* whose save failed it is also remembered which URLs the history it had loaded
\* held (those that runs before it had recorded and saved) without the run
\* delivering them.
NoRun ==
    [ran |-> FALSE, clean |-> FALSE, kept |-> FALSE, news_links |-> <<>>,
     editorial_links |-> <<>>, failed |-> {}, save_failed |-> FALSE,
     persisted |-> {}, unbatched |-> None]

\* The date page whose batch the run t did not deliver (no articles found, or
\* the POST failed), or None.
Unbatched(t) ==
    LET fetches == {i \in 1..Len(t) : t[i].op = "fetch_date"}
        batched == \E i \in 1..Len(t) : t[i].op = "notify_batch" /\ t[i].ok
    IN
    IF fetches # {} /\ ~batched
    THEN t[CHOOSE i \in fetches : TRUE].url
    ELSE None

SaveFailed(t) == \E i \in 1..Len(t) : t[i].op = "save" /\ ~t[i].ok

Summary(t, code, nl, el, ld, h) ==
    LET clean == code = 0 /\ AllDelivered(t) /\ Saved(t)
        keptIn(links, cat) ==
            \A u \in Range(FirstN(links, TOP_N)) :
                Contains(ld[cat], u) => Contains(h[cat], u)
    IN
    [ran |-> TRUE, clean |-> clean,
     kept |-> clean /\ keptIn(nl, "news") /\ keptIn(el, "editorials"),
     news_links |-> IF clean THEN nl ELSE <<>>,
     editorial_links |-> IF clean THEN el ELSE <<>>,
     failed |-> {<<t[i].cat, t[i].url>> : i \in
                    {j \in 1..Len(t) : /\ t[j].op = "notify"
                                       /\ ~Delivered(t, t[j].cat, t[j].url)
                                       /\ ~Contains(ld[t[j].cat], t[j].url)}},
     save_failed |-> SaveFailed(t),
     persisted |-> IF SaveFailed(t)
                   THEN {<<cat, u>> \in {"news", "editorials"} \X ScrapeUrls :
                            Contains(ld[cat], u) /\ ~Delivered(t, cat, u)}
                   ELSE {},
     unbatched |-> Unbatched(t)]

Init ==
    /\ file \in InitFiles
    /\ nruns = 0
    /\ DISCORD_WEBHOOK = [p \in Procs |-> FALSE]
    /\ pc = [p \in Procs |-> "idle"]
    /\ soup = [p \in Procs |-> NoPage]
    /\ history = [p \in Procs |-> EmptyHistory]
    /\ news_links = [p \in Procs |-> <<>>]
    /\ editorial_links = [p \in Procs |-> <<>>]
    /\ todo = [p \in Procs |-> <<>>]
    /\ new_items_found = [p \in Procs |-> FALSE]
    /\ news_date_to_fetch = [p \in Procs |-> None]
    /\ exit_code = [p \in Procs |-> -1]
    /\ trace = [p \in Procs |-> <<>>]
    /\ loaded = [p \in Procs |-> EmptyHistory]
    /\ read = [p \in Procs |-> NoFile("missing")]
    /\ prev = [p \in Procs |-> NoRun]

\* ----------------------------------------------------------------- actions
\* The process is started: the module is imported, DISCORD_WEBHOOK is read from
\* the environment, and main() is entered.
StartRun(p) ==
    /\ pc[p] \in {"idle", "done"}
    /\ nruns < MaxRuns
    /\ nruns' = nruns + 1
    /\ \E hook \in BOOLEAN : DISCORD_WEBHOOK' = [DISCORD_WEBHOOK EXCEPT ![p] = hook]
    /\ prev' = [prev EXCEPT ![p] =
                    IF pc[p] = "done"
                    THEN Summary(trace[p], exit_code[p], news_links[p],
                                 editorial_links[p], loaded[p], history[p])
                    ELSE NoRun]
    /\ pc' = [pc EXCEPT ![p] = "validate"]
    /\ soup' = [soup EXCEPT ![p] = NoPage]
    /\ history' = [history EXCEPT ![p] = EmptyHistory]
    /\ loaded' = [loaded EXCEPT ![p] = EmptyHistory]
    /\ read' = [read EXCEPT ![p] = NoFile("missing")]
    /\ news_links' = [news_links EXCEPT ![p] = <<>>]
    /\ editorial_links' = [editorial_links EXCEPT ![p] = <<>>]
    /\ todo' = [todo EXCEPT ![p] = <<>>]
    /\ new_items_found' = [new_items_found EXCEPT ![p] = FALSE]
    /\ news_date_to_fetch' = [news_date_to_fetch EXCEPT ![p] = None]
    /\ exit_code' = [exit_code EXCEPT ![p] = -1]
    /\ trace' = [trace EXCEPT ![p] = <<>>]
    /\ UNCHANGED file

\* A variant of ValidateWebhook that goes on without the webhook.
ValidateWebhookNoExit(p) ==
    /\ pc[p] = "validate"
    /\ pc' = [pc EXCEPT ![p] = "fetch"]
    /\ UNCHANGED <<file, nruns, DISCORD_WEBHOOK, soup, history, news_links,
                   editorial_links, todo, new_items_found, news_date_to_fetch,
                   exit_code, trace, loaded, read, prev>>

\* main, "Validate webhook": sys.exit(1) when the webhook is not configured.
ValidateWebhook(p) ==
    /\ pc[p] = "validate"
    /\ IF ~DISCORD_WEBHOOK[p]
       THEN /\ pc' = [pc EXCEPT ![p] = "done"]
            /\ exit_code' = [exit_code EXCEPT ![p] = 1]
       ELSE /\ pc' = [pc EXCEPT ![p] = "fetch"]
            /\ UNCHANGED exit_code
    /\ UNCHANGED <<file, nruns, DISCORD_WEBHOOK, soup, history, news_links,
                   editorial_links, todo, new_items_found, news_date_to_fetch,
                   trace, loaded, read, prev>>

\* main, "Fetch the webpage": sys.exit(1) when the GET fails, else the page.
FetchFrontPage(p) ==
    /\ pc[p] = "fetch"
    /\ \E ok \in BOOLEAN :
         /\ trace' = [trace EXCEPT ![p] = Append(@, Event("fetch_page", "front", None, ok))]
         /\ IF ok
            THEN /\ \E n \in NewsLists, e \in EditorialLists :
                      soup' = [soup EXCEPT ![p] = [news |-> n, editorials |-> e]]
                 /\ pc' = [pc EXCEPT ![p] = "load"]
                 /\ UNCHANGED exit_code
            ELSE /\ pc' = [pc EXCEPT ![p] = "done"]
                 /\ exit_code' = [exit_code EXCEPT ![p] = 1]
                 /\ UNCHANGED soup
    /\ UNCHANGED <<file, nruns, DISCORD_WEBHOOK, history, news_links,
                   editorial_links, todo, new_items_found, news_date_to_fetch,
                   loaded, read, prev>>

\* main, from "Parse HTML" to the head of the news loop: load_history() reads
\* the file, both sections are parsed, the news loop is set up.
LoadAndParse(p) ==
    /\ pc[p] = "load"
    /\ history' = [history EXCEPT ![p] = load_history(file)]
    /\ loaded' = [loaded EXCEPT ![p] = load_history(file)]
    /\ read' = [read EXCEPT ![p] = file]
    /\ new_items_found' = [new_items_found EXCEPT ![p] = FALSE]
    /\ news_links' = [news_links EXCEPT ![p] = parse_news_section(soup[p])]
    /\ editorial_links' = [editorial_links EXCEPT ![p] = parse_editorial_section(soup[p])]
    /\ news_date_to_fetch' = [news_date_to_fetch EXCEPT ![p] = None]
    /\ todo' = [todo EXCEPT ![p] = Candidates(parse_news_section(soup[p]))]
    /\ trace' = [trace EXCEPT ![p] = Append(@, Event("load", file.kind, None, TRUE))]
    /\ pc' = [pc EXCEPT ![p] = "news"]
    /\ UNCHANGED <<file, nruns, DISCORD_WEBHOOK, soup, exit_code, prev>>


\* The process dies of an uncaught exception: exit status 1.
Crash(p, key) ==
    /\ trace' = [trace EXCEPT ![p] = Append(@, Event("crash", key, None, FALSE))]
    /\ exit_code' = [exit_code EXCEPT ![p] = 1]
    /\ pc' = [pc EXCEPT ![p] = "done"]

\* main, "Process news": one turn of the loop over reversed(news_links[:5]),
\* or the end of the loop.  history["news"] raises KeyError without the key.
ProcessNews(p) ==
    /\ pc[p] = "news"
    /\ IF todo[p] = <<>>
       THEN /\ pc' = [pc EXCEPT ![p] = "editorials"]
            /\ todo' = [todo EXCEPT ![p] = Candidates(editorial_links[p])]
            /\ UNCHANGED <<history, new_items_found, news_date_to_fetch,
                           exit_code, trace>>
       ELSE LET url == Head(todo[p]) IN
            IF "news" \notin history[p].keys
            THEN /\ Crash(p, "news")
                 /\ UNCHANGED <<history, new_items_found, news_date_to_fetch, todo>>
            ELSE /\ todo' = [todo EXCEPT ![p] = Tail(@)]
                 /\ UNCHANGED <<pc, exit_code>>
                 /\ IF NotInLog(history[p].news, url)
                    THEN \E post_ok \in BOOLEAN :
                         LET sent == send_discord_notification(DISCORD_WEBHOOK[p], post_ok) IN
                         /\ trace' = [trace EXCEPT ![p] =
                                          Append(@, Event("notify", "news", url,
                                                          Posted(DISCORD_WEBHOOK[p], post_ok)))]
                         /\ IF sent
                            THEN /\ history' = [history EXCEPT ![p].news =
                                                    AppendCapped(@, url)]
                                 /\ new_items_found' =
                                        [new_items_found EXCEPT ![p] = TRUE]
                                 /\ news_date_to_fetch' =
                                        [news_date_to_fetch EXCEPT ![p] =
                                            DateToFetch(@, url)]
                            ELSE UNCHANGED <<history, new_items_found,
                                             news_date_to_fetch>>
                    ELSE UNCHANGED <<history, new_items_found,
                                     news_date_to_fetch, trace>>
    /\ UNCHANGED <<file, nruns, DISCORD_WEBHOOK, soup, news_links,
                   editorial_links, loaded, read, prev>>

\* A variant of ProcessEditorials that leaves the loop at the first failed
\* delivery.
ProcessEditorialsBreak(p) ==
    /\ pc[p] = "editorials"
    /\ IF todo[p] = <<>>
       THEN /\ pc' = [pc EXCEPT ![p] = "derived"]
            /\ UNCHANGED <<todo, history, new_items_found, exit_code, trace>>
       ELSE LET url == Head(todo[p]) IN
            IF "editorials" \notin history[p].keys
            THEN /\ Crash(p, "editorials")
                 /\ UNCHANGED <<history, new_items_found, todo>>
            ELSE /\ UNCHANGED <<pc, exit_code>>
                 /\ IF NotInLog(history[p].editorials, url)
                    THEN \E post_ok \in BOOLEAN :
                         LET sent == send_discord_notification(DISCORD_WEBHOOK[p], post_ok) IN
                         /\ trace' = [trace EXCEPT ![p] =
                                          Append(@, Event("notify", "editorials", url,
                                                          Posted(DISCORD_WEBHOOK[p], post_ok)))]
                         /\ IF sent
                            THEN /\ history' = [history EXCEPT ![p].editorials =
                                                    AppendCapped(@, url)]
                                 /\ new_items_found' =
                                        [new_items_found EXCEPT ![p] = TRUE]
                                 /\ todo' = [todo EXCEPT ![p] = Tail(@)]
                            ELSE /\ todo' = [todo EXCEPT ![p] = <<>>]
                                 /\ UNCHANGED <<history, new_items_found>>
                    ELSE /\ todo' = [todo EXCEPT ![p] = Tail(@)]
                         /\ UNCHANGED <<history, new_items_found, trace>>
    /\ UNCHANGED <<file, nruns, DISCORD_WEBHOOK, soup, news_links,
                   editorial_links, news_date_to_fetch, loaded, read, prev>>

\* main, "Process editorials": one turn of the loop over
\* reversed(editorial_links[:5]), or the end of the loop.
ProcessEditorials(p) ==
    /\ pc[p] = "editorials"
    /\ IF todo[p] = <<>>
       THEN /\ pc' = [pc EXCEPT ![p] = "derived"]
            /\ UNCHANGED <<todo, history, new_items_found, exit_code, trace>>
       ELSE LET url == Head(todo[p]) IN
            IF "editorials" \notin history[p].keys
            THEN /\ Crash(p, "editorials")
                 /\ UNCHANGED <<history, new_items_found, todo>>
            ELSE /\ todo' = [todo EXCEPT ![p] = Tail(@)]
                 /\ UNCHANGED <<pc, exit_code>>
                 /\ IF NotInLog(history[p].editorials, url)
                    THEN \E post_ok \in BOOLEAN :
                         LET sent == send_discord_notification(DISCORD_WEBHOOK[p], post_ok) IN
                         /\ trace' = [trace EXCEPT ![p] =
                                          Append(@, Event("notify", "editorials", url,
                                                          Posted(DISCORD_WEBHOOK[p], post_ok)))]
                         /\ IF sent
                            THEN /\ history' = [history EXCEPT ![p].editorials =
                                                    AppendCapped(@, url)]
                                 /\ new_items_found' =
                                        [new_items_found EXCEPT ![p] = TRUE]
                            ELSE UNCHANGED <<history, new_items_found>>
                    ELSE UNCHANGED <<history, new_items_found, trace>>
    /\ UNCHANGED <<file, nruns, DISCORD_WEBHOOK, soup, news_links,
                   editorial_links, news_date_to_fetch, loaded, read, prev>>

\* fetch_news_of_the_day: the number of articles found on the date page; 0 when
\* the GET fails or the section is not found.
ArticleCounts == 0..MaxArticles

\* main, "Fetch and send News of the Day": the whole if statement.
DerivedPage(p) ==
    /\ pc[p] = "derived"
    /\ pc' = [pc EXCEPT ![p] = "save"]
    /\ IF news_date_to_fetch[p] # None
          /\ NotInLog(GetNewsArticles(history[p]), news_date_to_fetch[p])
       THEN LET date_url == news_date_to_fetch[p] IN
            \E articles \in ArticleCounts, post_ok \in BOOLEAN :
            LET sent == send_news_of_the_day_notification(
                            DISCORD_WEBHOOK[p], articles, post_ok)
                fetched == Append(trace[p],
                               Event("fetch_date", "news_articles", date_url, articles > 0))
            IN
            \* the POST is only made with articles; its outcome is then post_ok
            /\ (articles = 0 => post_ok)
            /\ trace' = [trace EXCEPT ![p] =
                             IF articles > 0
                             THEN Append(fetched,
                                      Event("notify_batch", "news_articles", date_url,
                                            Posted(DISCORD_WEBHOOK[p], post_ok)))
                             ELSE fetched]
            /\ IF articles > 0 /\ sent
               THEN /\ history' = [history EXCEPT
                                       ![p].keys = @ \cup {"news_articles"},
                                       ![p].news_articles = AppendCapped(@, date_url)]
                    /\ new_items_found' = [new_items_found EXCEPT ![p] = TRUE]
               ELSE UNCHANGED <<history, new_items_found>>
       ELSE UNCHANGED <<history, new_items_found, trace>>
    /\ UNCHANGED <<file, nruns, DISCORD_WEBHOOK, soup, news_links,
                   editorial_links, todo, news_date_to_fetch, exit_code,
                   loaded, read, prev>>

\* A variant of ShouldSave that saves at the end of every run.
SaveAlways(found) == TRUE

\* if new_items_found
ShouldSave(found) == found

\* save_history: what becomes of the file.  "ok": the dict is written (the
\* print that follows raises KeyError for a dict without "news" or
\* "editorials", which is caught and reported, the file being written already);
\* "open_failed": open() raises, the file is as before; "write_failed": the
\* file was truncated by open() and the dump did not complete.
SaveOutcomes == {"ok", "open_failed", "write_failed"}

\* A variant of save_history that adds the URLs of the dict to the logs the
\* file holds, instead of replacing them.
save_history_merge(h, f, outcome) ==
    LET merge(a, b) ==
            LastN(a \o SelectSeq(b, LAMBDA u : ~Contains(a, u)), MAX_HISTORY_SIZE)
    IN
    IF outcome = "ok"
    THEN [kind |-> "object", keys |-> h.keys, news |-> merge(f.news, h.news),
          editorials |-> merge(f.editorials, h.editorials),
          news_articles |-> merge(f.news_articles, h.news_articles)]
    ELSE IF outcome = "open_failed" THEN f
    ELSE NoFile("malformed")

save_history(h, f, outcome) ==
    IF outcome = "ok" THEN ObjectFile(h)
    ELSE IF outcome = "open_failed" THEN f
    ELSE NoFile("malformed")

\* A variant of SaveAndExit that goes back to the derived-page step after its
\* first save.
SaveAndReenter(p) ==
    /\ pc[p] = "save"
    /\ pc' = [pc EXCEPT ![p] =
                 IF ShouldSave(new_items_found[p])
                    /\ \A i \in 1..Len(trace[p]) : trace[p][i].op # "save"
                 THEN "derived" ELSE "done"]
    /\ exit_code' = [exit_code EXCEPT ![p] =
                        IF pc'[p] = "done" THEN 0 ELSE exit_code[p]]
    /\ IF ShouldSave(new_items_found[p])
       THEN \E outcome \in SaveOutcomes :
            /\ file' = save_history(history[p], file, outcome)
            /\ trace' = [trace EXCEPT ![p] =
                             Append(@, Event("save", "", None, outcome = "ok"))]
       ELSE UNCHANGED <<file, trace>>
    /\ UNCHANGED <<nruns, DISCORD_WEBHOOK, soup, history, news_links,
                   editorial_links, todo, new_items_found, news_date_to_fetch,
                   loaded, read, prev>>

\* main, "Save updated history", and the return of main: exit status 0.
SaveAndExit(p) ==
    /\ pc[p] = "save"
    /\ pc' = [pc EXCEPT ![p] = "done"]
    /\ exit_code' = [exit_code EXCEPT ![p] = 0]
    /\ IF ShouldSave(new_items_found[p])
       THEN \E outcome \in SaveOutcomes :
            /\ file' = save_history(history[p], file, outcome)
            /\ trace' = [trace EXCEPT ![p] =
                             Append(@, Event("save", "", None, outcome = "ok"))]
       ELSE UNCHANGED <<file, trace>>
    /\ UNCHANGED <<nruns, DISCORD_WEBHOOK, soup, history, news_links,
                   editorial_links, todo, new_items_found, news_date_to_fetch,
                   loaded, read, prev>>

Step(p) ==
    \/ StartRun(p)
    \/ ValidateWebhook(p)
    \/ FetchFrontPage(p)
    \/ LoadAndParse(p)
    \/ ProcessNews(p)
    \/ ProcessEditorials(p)
    \/ DerivedPage(p)
    \/ SaveAndExit(p)

\* Runs one after another, as the scheduler starts them.
Next == \E p \in SeqProcs : Step(p)

Spec == Init /\ [][Next]_vars


\* Two processes started without waiting for one another (a run triggered while
\* another is under way): their steps interleave, each with its own variables,
\* both on the one history file.  The file starts as a history that a run has
\* saved before, or is missing.
OverlapFiles == {NoFile("missing"), ObjectFile(EmptyHistory)}

InitOverlap ==
    /\ file \in OverlapFiles
    /\ nruns = 0
    /\ DISCORD_WEBHOOK = [p \in Procs |-> FALSE]
    /\ pc = [p \in Procs |-> "idle"]
    /\ soup = [p \in Procs |-> NoPage]
    /\ history = [p \in Procs |-> EmptyHistory]
    /\ news_links = [p \in Procs |-> <<>>]
    /\ editorial_links = [p \in Procs |-> <<>>]
    /\ todo = [p \in Procs |-> <<>>]
    /\ new_items_found = [p \in Procs |-> FALSE]
    /\ news_date_to_fetch = [p \in Procs |-> None]
    /\ exit_code = [p \in Procs |-> -1]
    /\ trace = [p \in Procs |-> <<>>]
    /\ loaded = [p \in Procs |-> EmptyHistory]
    /\ read = [p \in Procs |-> NoFile("missing")]
    /\ prev = [p \in Procs |-> NoRun]

\* The front pages the overlapping runs fetch: short link lists.
OverlapPages ==
    {[news |-> n, editorials |-> e] :
        n \in SeqsUpTo(ScrapeUrls, MaxOverlapLinks),
        e \in SeqsUpTo(FreshUrls, MaxOverlapLinks)}

FetchShortPage(p) == FetchFrontPage(p) /\ soup'[p] \in OverlapPages

StepOverlap(p) ==
    \/ StartRun(p)
    \/ ValidateWebhook(p)
    \/ FetchShortPage(p)
    \/ LoadAndParse(p)
    \/ ProcessNews(p)
    \/ ProcessEditorials(p)
    \/ DerivedPage(p)
    \/ SaveAndExit(p)

NextOverlap == \E p \in Procs : StepOverlap(p)

SpecOverlap == InitOverlap /\ [][NextOverlap]_vars

\* =================================================================== claims
Last(s) == s[Len(s)]

Sections == {"news", "editorials"}

\* The process takes a step that attempts the notification of one item.
NotifyStep(p) ==
    /\ Len(trace'[p]) = Len(trace[p]) + 1
    /\ Last(trace'[p]).op = "notify"

\* How many deliveries of a section have succeeded so far in the run.
DeliveredCount(t, cat) == Cardinality({i \in Attempts(t, cat) : t[i].ok})

\* C1 (as amended): at the moment a notification for URL u is attempted, u is
\* absent from the in-memory log of its section as it stands then, after the
\* FIFO eviction of the run's earlier appends; a URL of the loaded log is only
\* attempted once the run's appends have pushed the log past the cap.
C1_AttemptOnlyAbsent ==
    [][\A p \in Procs :
          NotifyStep(p) =>
              LET e == Last(trace'[p]) IN
              /\ ~Contains(history[p][e.cat], e.url)
              /\ Contains(loaded[p][e.cat], e.url) =>
                    Len(loaded[p][e.cat]) + DeliveredCount(trace[p], e.cat)
                        > MAX_HISTORY_SIZE]_vars

\* C1 witness: a finished run that skipped a seen URL of the window and
\* attempted an unseen one.
C1_Witness ==
    \E p \in Procs :
        /\ pc[p] = "done" /\ exit_code[p] = 0
        /\ Contains(loaded[p].news, OldestUrl)
        /\ Contains(FirstN(news_links[p], TOP_N), OldestUrl)
        /\ ~Attempted(trace[p], "news", OldestUrl)
        /\ \E u \in FreshUrls : Attempted(trace[p], "news", u)

\* C1 as stated: no notification is ever attempted for a URL of the loaded log
\* of its section.
C1_Original ==
    \A p \in Procs : \A cat \in Sections :
        \A i \in Attempts(trace[p], cat) :
            ~Contains(loaded[p][cat], trace[p][i].url)


\* The run died of the KeyError of a missing list.
Crashed(p, key) ==
    /\ pc[p] = "done"
    /\ trace[p] # <<>>
    /\ Last(trace[p]).op = "crash"
    /\ Last(trace[p]).cat = key

\* The run has gone through every candidate of the section.
ScanDone(p, cat) ==
    IF cat = "news"
    THEN \/ pc[p] \in {"editorials", "derived", "save"}
         \/ pc[p] = "done" /\ exit_code[p] = 0
         \/ Crashed(p, "editorials")
    ELSE \/ pc[p] \in {"derived", "save"}
         \/ pc[p] = "done" /\ exit_code[p] = 0

Links(p, cat) == IF cat = "news" THEN news_links[p] ELSE editorial_links[p]

InWindow(p, cat, u) == Contains(FirstN(Links(p, cat), TOP_N), u)

FailedAttempt(t, cat, u) ==
    \E i \in Attempts(t, cat) : t[i].url = u /\ ~t[i].ok

\* The next run attempts again what the run before failed to deliver.
RetriedNextRun ==
    \A p \in Procs : \A cat \in Sections : \A u \in ScrapeUrls :
        (/\ <<cat, u>> \in prev[p].failed
         /\ ScanDone(p, cat)
         /\ InWindow(p, cat, u))
        => Attempted(trace[p], cat, u)

\* C2 (as amended): a failed attempt records nothing: a URL whose notification
\* failed and never succeeded in the run is absent from the in-memory log; and
\* when that URL was also absent from the history the run had loaded, the next
\* run that scans the section with the URL in its top-5 window attempts its
\* notification again.
C2_FailedNotRecorded ==
    /\ \A p \in Procs : \A cat \in Sections : \A u \in ScrapeUrls :
          (FailedAttempt(trace[p], cat, u) /\ ~Delivered(trace[p], cat, u))
          => ~Contains(history[p][cat], u)
    /\ RetriedNextRun

\* C2 witness: an editorial failed in the run before and is attempted again.
C2_Witness ==
    \E p \in Procs : \E u \in FreshUrls :
        /\ <<"editorials", u>> \in prev[p].failed
        /\ pc[p] = "done" /\ exit_code[p] = 0
        /\ Attempted(trace[p], "editorials", u)

\* C2 as stated: a URL whose notification failed in the run is not in the log
\* (it is not appended in that run), and the next run attempts it again.
C2_Original ==
    /\ \A p \in Procs : \A cat \in Sections : \A u \in ScrapeUrls :
          FailedAttempt(trace[p], cat, u) => ~Contains(history[p][cat], u)
    /\ RetriedNextRun


\* The run has loaded the history and parsed the page.
Loaded(p) == \E i \in 1..Len(trace[p]) : trace[p][i].op = "load"

SameScrape(p) ==
    /\ Loaded(p)
    /\ news_links[p] = prev[p].news_links
    /\ editorial_links[p] = prev[p].editorial_links

NoDeliveryAttempt(t) ==
    \A i \in 1..Len(t) : t[i].op \notin {"notify", "notify_batch", "fetch_date"}

NoSave(t) == \A i \in 1..Len(t) : t[i].op # "save"

SecondRunIdle(p) ==
    /\ NoDeliveryAttempt(trace[p])
    /\ NoSave(trace[p])
    /\ ~new_items_found[p]

\* C3 (as amended): after a run that ended with every attempted delivery
\* successful and the history saved, and whose appends evicted no URL of the
\* two top-5 windows from its log, a next run that scrapes the same two lists
\* attempts no notification, fetches no date page and does not save.
C3_SecondRunIdle ==
    \A p \in Procs :
        (prev[p].clean /\ prev[p].kept /\ SameScrape(p)) => SecondRunIdle(p)

\* C3 witness: such a second run has run to its end, after a first run that
\* announced two news items and an editorial.
C3_Witness ==
    \E p \in Procs :
        /\ prev[p].clean /\ prev[p].kept /\ SameScrape(p)
        /\ Len(prev[p].news_links) > 1 /\ prev[p].editorial_links # <<>>
        /\ pc[p] = "done" /\ exit_code[p] = 0

\* C3 as stated: the same, whatever the first run evicted.
C3_Original ==
    \A p \in Procs : (prev[p].clean /\ SameScrape(p)) => SecondRunIdle(p)

\* Every log, in memory and in the file, is within the cap.
LogsCapped ==
    \A cat \in Keys :
        /\ Len(file[cat]) <= MAX_HISTORY_SIZE
        /\ \A p \in Procs : Len(history[p][cat]) <= MAX_HISTORY_SIZE

\* The process, in the middle of a run, changes the log of cat.
AppendStep(p, cat) ==
    /\ pc[p] \in {"news", "editorials", "derived"}
    /\ history'[p][cat] # history[p][cat]

\* new is old with one URL appended and, past the cap, the front dropped:
\* what precedes the last URL of new is the tail end of old, in order.
EvictsOldest(old, new) ==
    /\ Len(new) = Min(Len(old) + 1, MAX_HISTORY_SIZE)
    /\ \A i \in 1..(Len(new) - 1) : new[i] = old[Len(old) - (Len(new) - 1) + i]

\* C4: each of the three logs has at most MAX_HISTORY_SIZE (50) entries at all
\* times, in memory and in the file, and an append that would pass the cap
\* drops entries from the front only, keeping the rest in order.
C4_CappedFifo ==
    /\ []LogsCapped
    /\ [][\A p \in Procs : \A cat \in Keys :
            AppendStep(p, cat) => EvictsOldest(history[p][cat], history'[p][cat])]_vars

\* C4 witness: a full news log and a full derived-pages log have each taken one
\* more URL and the file holds the result.
C4_Witness ==
    \E p \in Procs : \E u \in FreshUrls :
        /\ loaded[p].news = FullLog
        /\ loaded[p].news_articles = FullLog
        /\ history[p].news = Append(Tail(FullLog), u)
        /\ history[p].news_articles = Append(Tail(FullLog), u)
        /\ file.news = history[p].news

\* The URLs of the notifications attempted for a section, in the order of the
\* attempts, and those of the successful ones.
UrlsOf(t) == [i \in 1..Len(t) |-> t[i].url]

AttemptSeq(t, cat) ==
    UrlsOf(SelectSeq(t, LAMBDA e : e.op = "notify" /\ e.cat = cat))

DeliveredSeq(t, cat) ==
    UrlsOf(SelectSeq(t, LAMBDA e : e.op = "notify" /\ e.cat = cat /\ e.ok))

RECURSIVE IsSubseq(_, _)
IsSubseq(a, b) ==
    IF a = <<>> THEN TRUE
    ELSE IF b = <<>> THEN FALSE
    ELSE IF Head(a) = Head(b) THEN IsSubseq(Tail(a), Tail(b))
    ELSE IsSubseq(a, Tail(b))

\* C5: within a section the notifications are attempted in the reverse of the
\* scrape order of the top-5 window (oldest first), every URL of the window
\* that is absent from the loaded log gets its attempt, and the log is the loaded log
\* followed by the delivered URLs in the order of their delivery (capped); from
\* an empty log and news = [u1, u2], all delivered, the log ends as [u2, u1].
C5_OldestFirst ==
    \A p \in Procs : \A cat \in Sections :
        /\ Loaded(p) =>
              /\ IsSubseq(AttemptSeq(trace[p], cat),
                          Reverse(FirstN(Links(p, cat), TOP_N)))
              /\ history[p][cat] =
                    LastN(loaded[p][cat] \o DeliveredSeq(trace[p], cat),
                          MAX_HISTORY_SIZE)
        /\ ScanDone(p, cat) =>
              /\ \A u \in Range(FirstN(Links(p, cat), TOP_N)) :
                    Contains(loaded[p][cat], u) \/ Attempted(trace[p], cat, u)
              /\ \A u1, u2 \in ScrapeUrls :
                    (/\ u1 # u2
                     /\ Links(p, cat) = <<u1, u2>>
                     /\ loaded[p][cat] = <<>>
                     /\ AllDelivered(trace[p]))
                    => history[p][cat] = <<u2, u1>>

\* C5 witness: from an empty news log, news = [u1, u2] was scraped, u2 was
\* announced before u1, and the log is [u2, u1].
C5_Witness ==
    \E p \in Procs : \E u1, u2 \in ScrapeUrls :
        /\ u1 # u2
        /\ news_links[p] = <<u1, u2>>
        /\ loaded[p].news = <<>>
        /\ AttemptSeq(trace[p], "news") = <<u2, u1>>
        /\ history[p].news = <<u2, u1>>
        /\ pc[p] = "done"

SaveCount(t) == Cardinality({i \in 1..Len(t) : t[i].op = "save"})

AnyDelivered(t) ==
    \E i \in 1..Len(t) : t[i].op \in {"notify", "notify_batch"} /\ t[i].ok

\* C6: a run that reaches its end saves the history exactly once when some
\* notification of the run (an item or the batch) was delivered and not at all
\* otherwise; no run saves before its last notification attempt, so the save is
\* the last I/O of the run.
C6_SaveOnceIffDelivered ==
    \A p \in Procs :
        /\ SaveCount(trace[p]) <= 1
        /\ SaveCount(trace[p]) = 1 =>
              /\ pc[p] = "done"
              /\ Last(trace[p]).op = "save"
        /\ (pc[p] = "done" /\ exit_code[p] = 0) =>
              (SaveCount(trace[p]) = 1 <=> AnyDelivered(trace[p]))

\* C6 witness: a run ended with a save after only its batch and one editorial
\* were delivered last, and another run ended without a save after attempts
\* that all failed.
C6_Witness ==
    \E p \in Procs :
        /\ pc[p] = "done" /\ exit_code[p] = 0
        /\ SaveCount(trace[p]) = 1
        /\ \E i \in 1..Len(trace[p]) : trace[p][i].op = "notify_batch" /\ trace[p][i].ok
        /\ \E i \in 1..Len(trace[p]) :
              trace[p][i].op = "notify" /\ ~trace[p][i].ok

\* The URL of the first news item delivered in the run, or None: the earliest
\* newly announced news item.
FirstDelivered(t) ==
    LET d == DeliveredSeq(t, "news") IN IF d = <<>> THEN None ELSE d[1]

EventsOf(t, op) == {i \in 1..Len(t) : t[i].op = op}

\* C7: when the derived-pages log the run loaded already holds the URL of the
\* earliest newly announced news item, the run fetches no date page, sends no
\* batch notification and leaves the derived-pages log as loaded.
C7_DerivedPageNotRepeated ==
    \A p \in Procs :
        LET u == FirstDelivered(trace[p]) IN
        (u # None /\ Contains(loaded[p].news_articles, u))
        => /\ EventsOf(trace[p], "fetch_date") = {}
           /\ EventsOf(trace[p], "notify_batch") = {}
           /\ history[p].news_articles = loaded[p].news_articles

\* C7 witness: a run ended after announcing a news item whose URL the loaded
\* derived-pages log held.
C7_Witness ==
    \E p \in Procs :
        /\ pc[p] = "done" /\ exit_code[p] = 0
        /\ FirstDelivered(trace[p]) # None
        /\ Contains(loaded[p].news_articles, FirstDelivered(trace[p]))
        /\ news_date_to_fetch[p] = FirstDelivered(trace[p])

\* C8: a run fetches at most one date page and sends at most one batch, both
\* for the URL of the first news item delivered in the run; the batch is only
\* sent after a fetch that found articles; and the derived-pages log is the
\* loaded one, with that URL appended (capped) exactly when the batch was
\* delivered.
C8_OneDerivedPage ==
    \A p \in Procs :
        LET t == trace[p]
            fetches == EventsOf(t, "fetch_date")
            batches == EventsOf(t, "notify_batch")
        IN
        /\ Cardinality(fetches) <= 1
        /\ Cardinality(batches) <= 1
        /\ \A i \in fetches \cup batches :
              /\ FirstDelivered(t) # None
              /\ t[i].url = FirstDelivered(t)
        /\ \A i \in batches : \E j \in fetches : j < i /\ t[j].ok
        /\ history[p].news_articles =
              IF \E i \in batches : t[i].ok
              THEN LastN(Append(loaded[p].news_articles, FirstDelivered(t)),
                         MAX_HISTORY_SIZE)
              ELSE loaded[p].news_articles

\* C8 witness: two news items were delivered and the batch was delivered for
\* the first of them, whose URL ends the derived-pages log.
C8_Witness ==
    \E p \in Procs :
        /\ pc[p] = "done"
        /\ Len(DeliveredSeq(trace[p], "news")) = 2
        /\ DeliveredSeq(trace[p], "news")[1] # DeliveredSeq(trace[p], "news")[2]
        /\ \E i \in EventsOf(trace[p], "notify_batch") :
              trace[p][i].ok /\ trace[p][i].url = DeliveredSeq(trace[p], "news")[1]
        /\ Last(history[p].news_articles) = DeliveredSeq(trace[p], "news")[1]

\* What load_history found in place of the file, once the run has loaded.
LoadKind(p) == read[p].kind

Unusable == {"missing", "unreadable", "malformed", "nonobject"}

\* The run is going, or has gone, through both sections as it should: it has
\* not died, and a section it has scanned has had an attempt for every URL of
\* its window that the loaded log did not hold.
ProceedsNormally(p) ==
    /\ pc[p] = "done" => exit_code[p] = 0
    /\ \A cat \in Sections :
          ScanDone(p, cat) =>
              \A u \in Range(FirstN(Links(p, cat), TOP_N)) :
                  Contains(loaded[p][cat], u) \/ Attempted(trace[p], cat, u)

\* C9: when the history file is missing, unreadable or not parseable (or holds
\* JSON that is no object), load_history returns the history of three empty
\* lists, and the run goes on to its end with exit status 0, attempting the
\* notification of every URL of both top-5 windows.
C9_LoadNeverFails ==
    \A p \in Procs :
        (Loaded(p) /\ LoadKind(p) \in Unusable)
        => /\ loaded[p] = EmptyHistory
           /\ ProceedsNormally(p)
           /\ \A cat \in Sections :
                 ScanDone(p, cat) =>
                     \A u \in Range(FirstN(Links(p, cat), TOP_N)) :
                         Attempted(trace[p], cat, u)

\* C9 witness: a run that found a malformed file has ended with exit status 0
\* after attempting two news items and an editorial.
C9_Witness ==
    \E p \in Procs :
        /\ Loaded(p) /\ LoadKind(p) = "malformed"
        /\ pc[p] = "done" /\ exit_code[p] = 0
        /\ Len(AttemptSeq(trace[p], "news")) >= 2
        /\ AttemptSeq(trace[p], "editorials") # <<>>

\* C10: when the history file holds a JSON object that lacks one of its three
\* lists, the run behaves as with an empty list in its place: it goes through
\* both sections and ends with exit status 0, attempting every URL of a window
\* that the loaded log does not hold.
C10_MissingListIsEmpty ==
    \A p \in Procs :
        (/\ Loaded(p)
         /\ LoadKind(p) = "object"
         /\ Cardinality(Keys \ read[p].keys) = 1)
        => ProceedsNormally(p)

\* The run has ended at the webhook check, and at the front-page fetch.
NoWebhookExit(p) == pc[p] = "done" /\ ~DISCORD_WEBHOOK[p]

FetchFailedExit(p) ==
    /\ pc[p] = "done"
    /\ trace[p] # <<>>
    /\ Last(trace[p]).op = "fetch_page"
    /\ ~Last(trace[p]).ok

\* The process takes the step that ends its run before the history is loaded.
AbortStep(p) == pc[p] \in {"validate", "fetch"} /\ pc'[p] = "done"

\* C11: a run without the webhook ends with a non-zero exit status before any
\* I/O (no page fetch, no notification, no save); a run whose front-page fetch
\* fails ends with a non-zero exit status with that fetch as its only I/O; and
\* neither run changes the history file.
C11_AbortsLeaveHistory ==
    /\ [](\A p \in Procs :
            /\ (~DISCORD_WEBHOOK[p] /\ pc[p] \notin {"idle", "validate"}) =>
                  (pc[p] = "done" /\ exit_code[p] = 1 /\ trace[p] = <<>>)
            /\ (\E i \in 1..Len(trace[p]) :
                    trace[p][i].op = "fetch_page" /\ ~trace[p][i].ok) =>
                  (pc[p] = "done" /\ exit_code[p] = 1 /\ Len(trace[p]) = 1))
    /\ [][\A p \in Procs :
            /\ AbortStep(p) => (file' = file /\ exit_code'[p] = 1)
            /\ (pc[p] \in {"idle", "done", "validate", "fetch"} /\ pc'[p] # pc[p])
                  => file' = file]_vars

\* C11 witness: after a run that saved a news URL, a run has ended at the failed
\* front-page fetch, and the file still holds that URL.
C11_Witness ==
    \E p \in Procs : \E u \in FreshUrls :
        /\ nruns = 2
        /\ FetchFailedExit(p)
        /\ exit_code[p] = 1
        /\ file.kind = "object" /\ file.news = <<u>>

\* C12: a run with the webhook configured and the front page fetched always
\* ends with exit status 0, whatever the history file holds; a run only ends
\* with a non-zero exit status at the webhook check or at the failed
\* front-page fetch.
C12_ExitZero ==
    \A p \in Procs :
        (pc[p] = "done" /\ exit_code[p] # 0) =>
            (NoWebhookExit(p) \/ FetchFailedExit(p))

\* C13: a failed save does not end the run with an error, and after it the next
\* run announces again at most what the failed run had delivered: it attempts
\* no notification for a URL that a run before the failed one had recorded and
\* saved.
C13_FailedSaveCostsOneRun ==
    \A p \in Procs :
        /\ SaveFailed(trace[p]) => (pc[p] = "done" /\ exit_code[p] = 0)
        /\ prev[p].save_failed =>
              \A cat \in Sections : \A u \in ScrapeUrls :
                  <<cat, u>> \in prev[p].persisted => ~Attempted(trace[p], cat, u)

\* The URLs of the links at index 5 and beyond.
BeyondWindow(links) == {links[i] : i \in (TOP_N + 1)..Len(links)}

\* C14: in each section the candidates are the first min(5, n) links of the n
\* scraped: every attempt is for a URL of that window, a link at index 5 or
\* beyond whose URL the window does not hold is never attempted even when the
\* log lacks its URL, every link of a list shorter than 5 is a candidate
\* (skipped as seen, or attempted), and an empty list gives no attempt and no
\* error in its section.
C14_TopFiveWindow ==
    \A p \in Procs : \A cat \in Sections :
        Loaded(p) =>
            LET links == Links(p, cat)
                window == Range(FirstN(links, TOP_N))
            IN
            /\ \A i \in Attempts(trace[p], cat) : trace[p][i].url \in window
            /\ \A u \in BeyondWindow(links) \ window :
                  ~Attempted(trace[p], cat, u)
            /\ (ScanDone(p, cat) /\ Len(links) < TOP_N) =>
                  \A u \in Range(links) :
                      Contains(loaded[p][cat], u) \/ Attempted(trace[p], cat, u)
            /\ links = <<>> =>
                  /\ Attempts(trace[p], cat) = {}
                  /\ ~Crashed(p, cat)
                  /\ history[p][cat] = loaded[p][cat]

\* C14 witness: a run has ended after scraping six news links, the sixth a URL
\* that no log holds; the URL of the first five was attempted, the sixth not.
C14_Witness ==
    \E p \in Procs : \E a, b \in ScrapeUrls :
        /\ pc[p] = "done" /\ exit_code[p] = 0
        /\ Len(news_links[p]) = TOP_N + 1
        /\ news_links[p][1] = a /\ news_links[p][TOP_N + 1] = b
        /\ a # b
        /\ ~Contains(loaded[p].news, b) /\ ~Contains(history[p].news, b)
        /\ Attempted(trace[p], "news", a)
        /\ ~Attempted(trace[p], "news", b)
        /\ editorial_links[p] = <<>>

\* Some notification of an item has failed in the run so far.
AnyFailed(t) == \E i \in 1..Len(t) : t[i].op = "notify" /\ ~t[i].ok

\* The run is past the derived-page step.
DerivedDone(p) == pc[p] = "save" \/ (pc[p] = "done" /\ exit_code[p] = 0)

\* The process takes a step of the loop of cat with a candidate at hand.
LoopStep(p, cat) ==
    /\ pc[p] = cat
    /\ todo[p] # <<>>
    /\ (todo'[p] # todo[p] \/ pc'[p] # pc[p])

\* C15: a failed delivery does not stop the run.  The step of a failed attempt
\* leaves the run in its loop with the next candidate at hand; after a failure
\* every candidate whose URL the log of its section lacks still gets its
\* attempt, in the same section and in the other; the derived-page step still
\* fetches the date page of the first delivered news item; and the run ends with
\* exit status 0 (or on the KeyError of a history without the editorials list,
\* which a run without a failure meets as well).
C15_FailureDoesNotStop ==
    /\ [](\A p \in Procs :
            AnyFailed(trace[p]) =>
                /\ pc[p] = "done" => (exit_code[p] = 0 \/ Crashed(p, "editorials"))
                /\ \A cat \in Sections :
                      ScanDone(p, cat) =>
                          \A u \in Range(FirstN(Links(p, cat), TOP_N)) :
                              Contains(loaded[p][cat], u) \/ Attempted(trace[p], cat, u)
                /\ (/\ DerivedDone(p)
                    /\ FirstDelivered(trace[p]) # None
                    /\ ~Contains(loaded[p].news_articles, FirstDelivered(trace[p])))
                   => \E i \in EventsOf(trace[p], "fetch_date") :
                          trace[p][i].url = FirstDelivered(trace[p]))
    /\ [][\A p \in Procs :
            /\ (NotifyStep(p) /\ ~Last(trace'[p]).ok) =>
                  /\ pc'[p] = pc[p]
                  /\ exit_code'[p] = exit_code[p]
                  /\ todo'[p] = Tail(todo[p])
                  /\ history'[p] = history[p]
            /\ \A cat \in Sections :
                  (/\ LoopStep(p, cat)
                   /\ AnyFailed(trace[p])
                   /\ cat \in history[p].keys
                   /\ ~Contains(history[p][cat], Head(todo[p])))
                  => (NotifyStep(p) /\ Last(trace'[p]).url = Head(todo[p]))]_vars

\* C15 witness: a run has ended with exit status 0 in which the first news
\* attempt failed, the second news item was delivered, an editorial was
\* attempted and the date page of the delivered item was fetched.
C15_Witness ==
    \E p \in Procs :
        LET t == trace[p]
            n == SelectSeq(t, LAMBDA e : e.op = "notify" /\ e.cat = "news")
        IN
        /\ pc[p] = "done" /\ exit_code[p] = 0
        /\ Len(n) = 2 /\ ~n[1].ok /\ n[2].ok /\ n[1].url # n[2].url
        /\ Attempts(t, "editorials") # {}
        /\ \E i \in EventsOf(t, "fetch_date") : t[i].url = n[2].url

\* The place of an I/O event in the order of the steps of main.
StepRank(e) ==
    CASE e.op = "fetch_page" -> 1
      [] e.op = "load" -> 2
      [] e.op = "notify" /\ e.cat = "news" -> 3
      [] e.op = "notify" /\ e.cat = "editorials" -> 4
      [] e.op = "fetch_date" -> 5
      [] e.op = "notify_batch" -> 6
      [] e.op = "save" -> 7
      [] OTHER -> 8

\* The place of a program position in main.
PcRank(l) ==
    CASE l = "idle" -> 0
      [] l = "validate" -> 1
      [] l = "fetch" -> 2
      [] l = "load" -> 3
      [] l = "news" -> 4
      [] l = "editorials" -> 5
      [] l = "derived" -> 6
      [] l = "save" -> 7
      [] OTHER -> 8

OnceOps == {"fetch_page", "load", "fetch_date", "notify_batch", "save", "crash"}

\* C16: the steps of a run come in one order and none is entered again: the
\* front-page fetch, the load of the history, the news notifications, the
\* editorial notifications, the date-page fetch, the batch notification, the
\* save; the fetches, the load, the batch and the save happen at most once; and
\* the position of the run in main only moves forward.
C16_FixedOrder ==
    /\ [](\A p \in Procs :
            LET t == trace[p] IN
            /\ \A i, j \in 1..Len(t) :
                  i < j => StepRank(t[i]) <= StepRank(t[j])
            /\ \A op \in OnceOps : Cardinality(EventsOf(t, op)) <= 1
            /\ t # <<>> => t[1].op = "fetch_page"
            /\ Len(t) > 1 => (t[1].ok /\ t[2].op = "load"))
    /\ [][\A p \in Procs :
            pc'[p] # pc[p] =>
                \/ PcRank(pc'[p]) > PcRank(pc[p])
                \/ pc[p] = "done" /\ pc'[p] = "validate"]_vars

\* C16 witness: a run has gone through every step: two news notifications, an
\* editorial notification, the date-page fetch, the batch and the save.
C16_Witness ==
    \E p \in Procs :
        LET t == trace[p] IN
        /\ pc[p] = "done" /\ exit_code[p] = 0
        /\ Len(AttemptSeq(t, "news")) = 2
        /\ Len(AttemptSeq(t, "editorials")) >= 1
        /\ EventsOf(t, "fetch_date") # {}
        /\ EventsOf(t, "notify_batch") # {}
        /\ Last(t).op = "save"

\* The process takes the step that writes the history file.
SaveOkStep(p) ==
    /\ Len(trace'[p]) = Len(trace[p]) + 1
    /\ Last(trace'[p]).op = "save"
    /\ Last(trace'[p]).ok

\* The process is between its load of the history and its save.
InFlight(p) == pc[p] \in {"news", "editorials", "derived", "save"}

\* C17: nothing keeps two runs apart on the history file.  Each run tells seen
\* from new by the history it loaded itself, so it attempts every URL of its
\* windows that its own loaded log lacks, whatever another run has delivered or
\* saved since; and a save writes the saver's own dict over the file, so that
\* the file then holds no URL but those the saver had loaded or delivered.
C17_LastSaveWins ==
    /\ [](\A p \in Procs : \A cat \in Sections :
            ScanDone(p, cat) =>
                \A u \in Range(FirstN(Links(p, cat), TOP_N)) :
                    Contains(loaded[p][cat], u) \/ Attempted(trace[p], cat, u))
    /\ [][\A p \in Procs :
            SaveOkStep(p) =>
                /\ file' = ObjectFile(history[p])
                /\ \A cat \in Keys : \A u \in ScrapeUrls :
                      Contains(file'[cat], u) =>
                          \/ Contains(loaded[p][cat], u)
                          \/ Delivered(trace[p], cat, u)]_vars

\* C17 witness: two runs have both loaded a history without the news URL u and
\* both announced u; one of them also announced an editorial and saved; the
\* other saved after it, and the file lacks the editorial.
C17_Witness ==
    \E p, q \in Procs : \E u, e \in FreshUrls :
        /\ p # q
        /\ pc[p] = "done" /\ pc[q] = "done"
        /\ ~Contains(loaded[p].news, u) /\ ~Contains(loaded[q].news, u)
        /\ Delivered(trace[p], "news", u) /\ Delivered(trace[q], "news", u)
        /\ Delivered(trace[q], "editorials", e) /\ Saved(trace[q])
        /\ ~Attempted(trace[p], "editorials", e) /\ Saved(trace[p])
        /\ file = ObjectFile(history[p])
        /\ ~Contains(file.editorials, e)

\* The date-page fetches and batch notifications of the run, as trace positions.
BatchEvents(t) == EventsOf(t, "fetch_date") \cup EventsOf(t, "notify_batch")

\* The run has fetched a date page and not delivered its batch.
BatchMissed(t) ==
    /\ EventsOf(t, "fetch_date") # {}
    /\ \A i \in EventsOf(t, "notify_batch") : ~t[i].ok

\* C18: the date page of u is fetched, and its batch sent, only in a run that
\* has delivered the notification of the news item u before; when the fetch
\* finds no articles or the batch is not delivered, the derived-pages log stays
\* as loaded; and the next run, which finds u in the news log and keeps it
\* there, neither fetches the date page of u nor sends its batch, so u stays
\* out of the derived-pages log.
C18_BatchOnlyWithNewItem ==
    \A p \in Procs :
        LET t == trace[p] IN
        /\ \A i \in BatchEvents(t) :
              \E j \in Attempts(t, "news") :
                  j < i /\ t[j].url = t[i].url /\ t[j].ok
        /\ BatchMissed(t) => history[p].news_articles = loaded[p].news_articles
        /\ \A u \in ScrapeUrls :
              (/\ prev[p].unbatched = u
               /\ Loaded(p)
               /\ Contains(loaded[p].news, u)
               /\ Contains(history[p].news, u)
               /\ ~Delivered(t, "news", u))
              => /\ \A i \in BatchEvents(t) : t[i].url # u
                 /\ Contains(history[p].news_articles, u) =>
                       Contains(loaded[p].news_articles, u)

\* C18 witness: the run before did not deliver the batch of u and saved; this
\* run found u in the news log and in the window, announced another news item
\* with its batch, and ended with u outside the derived-pages log.
C18_Witness ==
    \E p \in Procs : \E u \in ScrapeUrls :
        /\ prev[p].unbatched = u
        /\ pc[p] = "done" /\ exit_code[p] = 0
        /\ Contains(loaded[p].news, u)
        /\ InWindow(p, "news", u)
        /\ ~Attempted(trace[p], "news", u)
        /\ \E i \in EventsOf(trace[p], "notify_batch") : trace[p][i].ok
        /\ ~Contains(history[p].news_articles, u)

\* The log that a position of main appends to.
LogOf(l) ==
    CASE l = "news" -> "news"
      [] l = "editorials" -> "editorials"
      [] OTHER -> "news_articles"

\* C19: the three logs are kept apart.  A step of the news loop changes the
\* news log only, a step of the editorial loop the editorials log only, the
\* derived-page step the derived-pages log only; and seen is told from new in
\* the log of the section alone: a URL of a window that the loaded log of its
\* section lacks is attempted although another log holds it, and the date page
\* of the first delivered news item is fetched although the news log holds its
\* URL by then.
C19_LogsIndependent ==
    /\ [](\A p \in Procs :
            /\ \A cat \in Sections :
                  ScanDone(p, cat) =>
                      \A u \in Range(FirstN(Links(p, cat), TOP_N)) :
                          (\E other \in Keys \ {cat} : Contains(history[p][other], u))
                          => (Contains(loaded[p][cat], u) \/ Attempted(trace[p], cat, u))
            /\ (/\ DerivedDone(p)
                /\ FirstDelivered(trace[p]) # None
                /\ Contains(history[p].news, FirstDelivered(trace[p]))
                /\ ~Contains(loaded[p].news_articles, FirstDelivered(trace[p])))
               => \E i \in EventsOf(trace[p], "fetch_date") :
                      trace[p][i].url = FirstDelivered(trace[p]))
    /\ [][\A p \in Procs :
            pc[p] \in {"news", "editorials", "derived"} =>
                \A cat \in Keys \ {LogOf(pc[p])} :
                    history'[p][cat] = history[p][cat]]_vars

\* C19 witness: one URL was announced as a news item, as an editorial and as a
\* date page in one run, and is in all three logs.
C19_Witness ==
    \E p \in Procs : \E u \in FreshUrls :
        /\ pc[p] = "done" /\ exit_code[p] = 0
        /\ Delivered(trace[p], "news", u)
        /\ Delivered(trace[p], "editorials", u)
        /\ Delivered(trace[p], "news_articles", u)
        /\ \A cat \in Keys : Contains(history[p][cat], u)

\* The log holds no URL twice.
NoRepeat(log) == Cardinality(Range(log)) = Len(log)

\* C20: from a history file whose logs hold no URL twice, no log ever holds a
\* URL twice, in memory or in the file, even when a top-5 window repeats a URL:
\* a URL is appended only when the log lacks it at that moment, and once a
\* notification of a URL has been delivered in a run, the run attempts none for
\* that URL in that section again.
C20_NoRepeatedUrl ==
    /\ [](/\ \A cat \in Keys : NoRepeat(file[cat])
          /\ \A p \in Procs :
                /\ \A cat \in Keys : NoRepeat(history[p][cat])
                /\ \A cat \in Keys :
                      \A i, j \in Attempts(trace[p], cat) :
                          (i < j /\ trace[p][i].url = trace[p][j].url)
                          => ~trace[p][i].ok)
    /\ [][\A p \in Procs : \A cat \in Keys :
            AppendStep(p, cat) =>
                ~Contains(history[p][cat], Last(history'[p][cat]))]_vars

\* C20 witness: a run has ended that scraped a window repeating the URL u, made
\* one attempt for u, which was delivered, and saved a news log that holds u
\* once.
C20_Witness ==
    \E p \in Procs : \E u \in FreshUrls :
        /\ pc[p] = "done" /\ exit_code[p] = 0
        /\ Len(news_links[p]) > 1
        /\ \A i \in 1..Min(Len(news_links[p]), TOP_N) : news_links[p][i] = u
        /\ AttemptSeq(trace[p], "news") = <<u>>
        /\ Delivered(trace[p], "news", u)
        /\ Saved(trace[p])
        /\ Cardinality({i \in 1..Len(file.news) : file.news[i] = u}) = 1

====
